---- MODULE Spec2Model ----
(***************************************************************************)
(* The expense/loan backend: POST /api/process (server.js), the extraction *)
(* defaulting of services/openai.js and the ledger operations of           *)
(* services/supabase.js, run by concurrent requests against one store.     *)
(*                                                                         *)
(* Amounts are counted in quarters of 0.01: a JSON number may have more    *)
(* than two decimals, and the NUMERIC(15,2) columns of the loans and       *)
(* transactions tables round what they are given to a multiple of 0.01.    *)
(***************************************************************************)
EXTENDS Integers, Sequences, FiniteSets, Bags, TLC

\* ---------------------------------------------------------------- bounds
MaxRequests == 3      \* requests received in one behaviour
NumProcs == 2         \* requests in flight at the same time
MaxAmount == 2        \* largest amount of a repayment or a transaction, in 0.01
MaxLedgerRequests == 4  \* requests received in one behaviour of LedgerSpec
Cent == 4             \* resolution of the amounts: units in 0.01 (one unit is 0.0025)


\* The limits of a rating (POST /api/feedback, and the CHECK of the table).
MinRating == 1
MaxRating == 5

Procs == 1..NumProcs
Users == {"u1", "u2"}

\* ------------------------------------------------------- JSON values
\* A JS value in a numeric field: a number n, a string that spells the number
\* n ("0", "5"), undefined (the key is missing), null, the empty string, or a
\* non-empty string that is no number ("abc").
\* The field n is what Number(v) gives where that is a number (Number(null)
\* and Number("") are 0); it is not read where Number(v) is NaN.
Num(n) == [t |-> "num", n |-> n]
NumStr(n) == [t |-> "numstr", n |-> n]
Absent == [t |-> "absent", n |-> 0]
Null == [t |-> "null", n |-> 0]
Empty == [t |-> "empty", n |-> 0]
NonNum == [t |-> "str", n |-> 0]

\* The JS number of n hundredths (n = 1: 0.01).
Cents(n) == Num(n * Cent)

\* JS truthiness of such a value: 0, undefined, null and "" are falsy, a
\* non-empty string is truthy ("0" too).
Truthy(v) == v.t \in {"str", "numstr"} \/ (v.t = "num" /\ v.n # 0)

\* JS `v || d`
OrElse(v, d) == IF Truthy(v) THEN v ELSE d

\* Number(v) is NaN for undefined and for the non-numeric string; Number(null)
\* and Number("") are 0.
IsNaN(v) == v.t \in {"absent", "str"}

\* Mutant: the floor at 0 is missing.
Max0_NoFloor(x) == x

\* Math.max(0, x)
Max0(x) == IF x > 0 THEN x ELSE 0

\* ------------------------------------------------------- lender names
\* Strings are sequences of characters; "" is <<>>.
Unknown == <<"U", "n", "k", "n", "o", "w", "n">>

Lower(c) == IF c = "A" THEN "a" ELSE IF c = "B" THEN "b" ELSE IF c = "U" THEN "u" ELSE c

\* SQL LIKE of string s against pattern pat, case-insensitively (ILIKE):
\* "%" matches any run of characters, "_" any one character.
RECURSIVE LikeMatch(_, _)
LikeMatch(pat, s) ==
  IF pat = <<>> THEN s = <<>>
  ELSE IF Head(pat) = "%"
    THEN LikeMatch(Tail(pat), s) \/ (s # <<>> /\ LikeMatch(pat, Tail(s)))
    ELSE /\ s # <<>>
         /\ (Head(pat) = "_" \/ Lower(Head(pat)) = Lower(Head(s)))
         /\ LikeMatch(Tail(pat), Tail(s))

\* .ilike("lender_name", `%${lenderName}%`)
LenderPattern(lenderName) == <<"%">> \o lenderName \o <<"%">>

ILike(stored, lenderName) == LikeMatch(LenderPattern(lenderName), stored)

\* ------------------------------------------------------- extraction
\* The raw outputs of the extraction service that the model draws from (their
\* amounts are whole hundredths; LedgerOutputs below has fractions of one): for
\* each intent, outputs with the fields the code reads for that intent (the
\* others are absent), covering a usable number, a negative one, a non-numeric
\* string and a missing value, and lender names that match by case-insensitive
\* substring ("a" in "Ab"), by wildcard ("_") and not at all.
\* A date field of the raw output: missing, a "YYYY-MM-DD" string with the
\* numbers y, m, d, or a string that is no date at all ("next friday").
NoDate == [t |-> "absent", y |-> 0, m |-> 0, d |-> 0]
IsoDate(y, m, d) == [t |-> "date", y |-> y, m |-> m, d |-> d]
Words == [t |-> "words", y |-> 0, m |-> 0, d |-> 0]

\* The category and the notes of a raw output are strings; "" stands for a
\* missing one (undefined, null and "" are all falsy, and the code only tests
\* these two fields with ||).
Raw(intent, lender, amount, principal, type) ==
  [intent |-> intent, lender_name |-> lender, amount |-> amount,
   principal_amount |-> principal, type |-> type, currency |-> "", date |-> NoDate,
   category |-> "", notes |-> ""]

\* A raw output with a category and notes of its own.
RawWith(raw, category, notes) == [raw EXCEPT !.category = category, !.notes = notes]

RawLoans ==
  { Raw("new_loan", <<"A", "b">>, Absent, Cents(MaxAmount), ""),
    Raw("new_loan", <<"a">>, Absent, Cents(1), ""),
    Raw("new_loan", <<>>, Absent, Cents(-1), ""),
    Raw("new_loan", <<"A", "b">>, Absent, NonNum, ""),
    Raw("new_loan", <<"a">>, Absent, Absent, "") }

RawRepayments ==
  { Raw("loan_repayment", <<"a">>, Cents(n), Absent, "") : n \in {-1, 1, MaxAmount} }
  \cup
  { Raw("loan_repayment", <<"a">>, NonNum, Absent, ""),
    Raw("loan_repayment", <<"a">>, Absent, Absent, ""),
    Raw("loan_repayment", <<"_">>, Cents(1), Absent, ""),
    Raw("loan_repayment", <<>>, Cents(1), Absent, "") }

\* The transactions carry a category of their own ("loan", "loan_repayment":
\* the names the loan flows use) or none, and notes of their own or none.
RawTransactions ==
  { RawWith(Raw("transaction", <<>>, Cents(1), Absent, "income"), "loan", "a note"),
    RawWith(Raw("", <<>>, Cents(-1), Absent, "expense"), "loan_repayment", ""),
    Raw("chat", <<>>, Cents(1), Absent, ""),
    Raw("transaction", <<>>, Num(0), Absent, "expense"),
    Raw("", <<>>, Absent, Absent, ""),
    Raw("transaction", <<>>, NonNum, Absent, "") }

RawOutputs == RawLoans \cup RawRepayments \cup RawTransactions

\* Mutant: a missing intent is taken for a new loan.
IntentOf_LoanDefault(parsedData) == IF parsedData.intent = "" THEN "new_loan" ELSE parsedData.intent

\* parsedData.intent || "transaction"
IntentOf(parsedData) == IF parsedData.intent = "" THEN "transaction" ELSE parsedData.intent

\* parsedData.lender_name || "Unknown"
LenderOf(parsedData) == IF parsedData.lender_name = <<>> THEN Unknown ELSE parsedData.lender_name

\* defaultDate: new Date().toISOString().split("T")[0], the day of the request.
defaultDate == IsoDate(2026, 10, 30)

\* parsedData.currency || "BDT"
CurrencyOf(parsedData) == IF parsedData.currency = "" THEN "BDT" ELSE parsedData.currency

\* parsedData.date || defaultDate: any string that is not empty is kept as it is.
DateOf(parsedData) == IF parsedData.date.t = "absent" THEN defaultDate ELSE parsedData.date

\* The text the extraction was made from (the text of the body, or the
\* transcript of the voice file).
inputText == "text"

\* parsedData.category || "other"
CategoryOf(parsedData) == IF parsedData.category = "" THEN "other" ELSE parsedData.category

\* parsedData.notes || text
NotesOf(parsedData) == IF parsedData.notes = "" THEN inputText ELSE parsedData.notes

\* The defaulting of extractExpenseData after JSON.parse. The two loan intents
\* return no category ("" here).
extractExpenseData(parsedData) ==
  IF IntentOf(parsedData) = "new_loan" THEN
    [intent |-> "new_loan", lender_name |-> LenderOf(parsedData), amount |-> Absent,
     principal_amount |-> OrElse(parsedData.principal_amount, Num(0)), type |-> "",
     currency |-> CurrencyOf(parsedData), date |-> DateOf(parsedData),
     category |-> "", notes |-> NotesOf(parsedData)]
  ELSE IF IntentOf(parsedData) = "loan_repayment" THEN
    [intent |-> "loan_repayment", lender_name |-> LenderOf(parsedData),
     amount |-> OrElse(parsedData.amount, Num(0)), principal_amount |-> Absent, type |-> "",
     currency |-> CurrencyOf(parsedData), date |-> DateOf(parsedData),
     category |-> "", notes |-> NotesOf(parsedData)]
  ELSE
    [intent |-> "transaction", lender_name |-> <<>>,
     amount |-> OrElse(parsedData.amount, Num(0)), principal_amount |-> Absent,
     type |-> IF parsedData.type = "income" THEN "income" ELSE "expense",
     currency |-> CurrencyOf(parsedData), date |-> DateOf(parsedData),
     category |-> CategoryOf(parsedData), notes |-> NotesOf(parsedData)]

\* ------------------------------------------------------- state
VARIABLES
  loans,      \* the loans table: a sequence of rows, the id is the index
  txns,       \* the transactions table: a bag of rows
  pc,         \* per request slot: where the handler is
  req,        \* per request slot: the request (user id, body, raw and extracted data;
              \* settled is history: the loans that were paid off when it arrived)
  loan,       \* per request slot: the row recordLoanRepayment read (loans[0])
  res,        \* per request slot: the response / the result of recordLoanRepayment
  started,    \* number of requests received so far
  clamped,    \* history: ids of loans whose last update was floored at 0
  feedback,   \* the feedback table: a bag of rows
  caller      \* history: the user who sent the last DELETE request

vars == <<loans, txns, pc, req, loan, res, started, clamped, feedback, caller>>

NullLoan ==
  [id |-> 0, user_id |-> "", lender_name |-> <<>>, principal_amount |-> 0,
   total_paid |-> 0, remaining_balance |-> 0, status |-> "", deleted |-> FALSE]

NoRaw == Raw("", <<>>, Absent, Absent, "")
NoData == extractExpenseData(NoRaw)
NoBody == [mode |-> "", text |-> FALSE, file |-> FALSE]
NoReq ==
  [userId |-> "", body |-> NoBody, rating |-> Absent, raw |-> NoRaw, data |-> NoData,
   settled |-> {}]
NoRes == [http |-> 0, message |-> "", loan |-> NullLoan, at |-> ""]

\* The rows of the loans table (a deleted row is gone from the table).
Stored == {i \in DOMAIN loans : ~loans[i].deleted}

Init ==
  /\ loans = <<>>
  /\ txns = EmptyBag
  /\ pc = [p \in Procs |-> "idle"]
  /\ req = [p \in Procs |-> NoReq]
  /\ loan = [p \in Procs |-> NullLoan]
  /\ res = [p \in Procs |-> NoRes]
  /\ started = 0
  /\ clamped = {}
  /\ feedback = EmptyBag
  /\ caller = ""

\* ------------------------------------------------------- services/supabase.js
\* What the NUMERIC(15, 2) NOT NULL columns accept (amount, principal_amount,
\* remaining_balance): a number or a string that spells one; null, "" and a
\* string that is no number are refused.
StoreAccepts(v) == v.t \in {"num", "numstr"}

\* What a NUMERIC(15, 2) column stores of the number x: x rounded to two
\* decimals, a half away from 0.
Round2(x) ==
  IF x >= 0 THEN ((2 * x + Cent) \div (2 * Cent)) * Cent
            ELSE 0 - ((2 * (0 - x) + Cent) \div (2 * Cent)) * Cent

\* Number(a) + Number(b) is a sum of doubles. Where the exact sum lies half way
\* between two hundredths, the double sum may print just below it
\* (0.03 + 0.005 is 0.034999999999999996, 0.03 - 0.005 is 0.024999999999999998)
\* and the column then rounds it towards 0. These are the sums that do, as
\* pairs <<k, h>> of k hundredths and h halves of a hundredth, for k from -16
\* to 16 and h in {-3, -1, 1, 3}; every other sum of these is rounded as the
\* exact one is.
SumsBelowHalf ==
  { <<-15, -3>>, <<-12, 1>>, <<-9, 1>>, <<-3, -1>>, <<-3, 1>>, <<-1, 3>>,
    <<1, -3>>, <<3, -1>>, <<3, 1>>, <<9, -1>>, <<12, -1>>, <<15, 3>> }

\* The double sum of the stored number x and the number y prints just below
\* the half of a hundredth that the exact sum is.
BelowHalf(x, y) ==
  /\ x % Cent = 0
  /\ y % (Cent \div 2) = 0
  /\ <<x \div Cent, y \div (Cent \div 2)>> \in SumsBelowHalf

\* What a NUMERIC(15, 2) column stores of the number sent for v, which the
\* code has computed as the double sum of the stored number x and the number y.
StoredSum(v, x, y) ==
  IF BelowHalf(x, y)
    THEN (IF v > 0 THEN Round2(v) - Cent ELSE Round2(v) + Cent)
    ELSE Round2(v)

\* What the DATE NOT NULL columns accept (transactions.date, loans.start_date):
\* a "YYYY-MM-DD" string that names a day of the calendar.
DateAccepts(date) ==
  /\ date.t = "date"
  /\ date.m \in 1..12
  /\ date.d >= 1
  /\ date.d <= (IF date.m = 2
                  THEN (IF date.y % 4 = 0 /\ (date.y % 100 # 0 \/ date.y % 400 = 0)
                          THEN 29 ELSE 28)
                  ELSE IF date.m \in {4, 6, 9, 11} THEN 30 ELSE 31)

\* The row saveTransaction inserts, as the table stores it. loan_id is
\* history: the loan the row was reconciled against (0: none).
TxnRow(userId, amount, category, notes, type, loanId) ==
  [user_id |-> userId, amount |-> Round2(amount.n), category |-> category, notes |-> notes,
   type |-> type, loan_id |-> loanId]

\* The row saveLoan inserts, as the table stores it.
NewLoanRow(id, userId, data) ==
  [id |-> id, user_id |-> userId, lender_name |-> data.lender_name,
   principal_amount |-> Round2(data.principal_amount.n), total_paid |-> 0,
   remaining_balance |-> Round2(data.principal_amount.n), status |-> "active",
   deleted |-> FALSE]

\* recordLoanRepayment: the select
\*   .eq("user_id", userId).eq("status", "active").ilike("lender_name", ...)
MatchingLoans(userId, lenderName) ==
  {i \in Stored : /\ loans[i].user_id = userId
                  /\ loans[i].status = "active"
                  /\ ILike(loans[i].lender_name, lenderName)}

\* Mutant: the amount replaces total_paid instead of adding to it.
NewTotalPaid_Overwrite(ln, amount) == amount.n

\* recordLoanRepayment: the arithmetic on the row that was read
NewTotalPaid(ln, amount) == ln.total_paid + amount.n

NewRemaining(ln, amount) == ln.remaining_balance - amount.n

NewStatus(newRemaining) == IF newRemaining <= 0 THEN "paid_off" ELSE "active"

\* The fields of the update: { total_paid: newTotalPaid,
\* remaining_balance: Math.max(0, newRemaining), status: newStatus }.
Repaid(ln, amount) ==
  [ln EXCEPT !.total_paid = NewTotalPaid(ln, amount),
             !.remaining_balance = Max0(NewRemaining(ln, amount)),
             !.status = NewStatus(NewRemaining(ln, amount))]

\* Mutant: the result carries the loan as it was read.
Snapshot_AsRead(ln, amount) == ln

\* The loan of the returned result: { ...loan, total_paid: newTotalPaid,
\* remaining_balance: Math.max(0, newRemaining), status: newStatus }.
Snapshot(ln, amount) ==
  [ln EXCEPT !.total_paid = NewTotalPaid(ln, amount),
             !.remaining_balance = Max0(NewRemaining(ln, amount)),
             !.status = NewStatus(NewRemaining(ln, amount))]

\* Mutant: the update is a compare-and-swap on the remaining_balance read.
ApplyUpdate_CompareAndSwap(table, ln, amount) ==
  IF /\ ln.id \in DOMAIN table /\ ~table[ln.id].deleted
     /\ table[ln.id].remaining_balance = ln.remaining_balance
  THEN [table EXCEPT ![ln.id].total_paid =
                        StoredSum(ln.total_paid + amount.n, ln.total_paid, amount.n),
                     ![ln.id].remaining_balance =
                        IF ln.remaining_balance - amount.n > 0
                          THEN StoredSum(ln.remaining_balance - amount.n,
                                         ln.remaining_balance, 0 - amount.n)
                          ELSE 0,
                     ![ln.id].status = IF ln.remaining_balance - amount.n <= 0
                                         THEN "paid_off" ELSE "active"]
  ELSE table

\* Mutant: the update reaches every loan of the user, not the row read alone.
ApplyUpdate_AllOfUser(table, ln, amount) ==
  [i \in DOMAIN table |->
     IF table[i].user_id = ln.user_id /\ ~table[i].deleted
       THEN [table[i] EXCEPT !.total_paid =
                                StoredSum(ln.total_paid + amount.n, ln.total_paid, amount.n),
                             !.remaining_balance =
                                IF ln.remaining_balance - amount.n > 0
                                  THEN StoredSum(ln.remaining_balance - amount.n,
                                                 ln.remaining_balance, 0 - amount.n)
                                  ELSE 0,
                             !.status = IF ln.remaining_balance - amount.n <= 0
                                          THEN "paid_off" ELSE "active"]
       ELSE table[i]]

\* The update .eq("id", loan.id) applied to the table: the row with that id
\* gets the three fields, the two numbers (double sums) rounded by their
\* columns, the status as it was computed from the number before the rounding;
\* no row is touched when it is gone.
ApplyUpdate(table, ln, amount) ==
  IF ln.id \in DOMAIN table /\ ~table[ln.id].deleted
  THEN [table EXCEPT ![ln.id].total_paid =
                        StoredSum(Repaid(ln, amount).total_paid, ln.total_paid, amount.n),
                     ![ln.id].remaining_balance =
                        IF NewRemaining(ln, amount) > 0
                          THEN StoredSum(Repaid(ln, amount).remaining_balance,
                                         ln.remaining_balance, 0 - amount.n)
                          ELSE Round2(Repaid(ln, amount).remaining_balance),
                     ![ln.id].status = Repaid(ln, amount).status]
  ELSE table

\* ------------------------------------------------------- server.js
\* The branch POST /api/process takes after the extraction: the first store call
\* of the intent, or the response when the required fields are missing.
Dispatch(data) ==
  IF data.intent = "new_loan"
    THEN IF Truthy(data.principal_amount) THEN "saveLoan" ELSE "done"
  ELSE IF data.intent = "loan_repayment"
    THEN IF Truthy(data.amount) /\ data.lender_name # <<>> THEN "findLoans" ELSE "done"
  ELSE IF Truthy(data.amount) /\ data.type # "" THEN "saveTransaction" ELSE "done"

\* generateRepaymentResponseMessage
generateRepaymentResponseMessage(result) ==
  IF result.loan.id # 0
    THEN IF result.loan.status = "paid_off" THEN "now fully paid off" ELSE "Remaining balance"
    ELSE "no matching active loan found"

CouldNotExtract == [NoRes EXCEPT !.http = 200, !.message = "could not extract"]

\* The 500 response of the catch block; `at` is the store call that threw.
Failed(at) ==
  [NoRes EXCEPT !.http = 500, !.at = at,
                !.message = IF at = "saveFeedback" THEN "Failed to save feedback"
                                                   ELSE "Failed to process request"]

\* The 400 response of a validation.
Rejected(message) == [NoRes EXCEPT !.http = 400, !.message = message]

\* What console.error has printed when the call `at` of a request has thrown:
\* the line of the function that failed, of recordLoanRepayment around it, and
\* of the handler's catch block.
Logged(at) ==
  IF at = "transcribe" THEN <<"Transcription error:", "Error processing request:">>
  ELSE IF at = "extract" THEN <<"OpenAI extraction error:", "Error processing request:">>
  ELSE IF at = "saveLoan" THEN <<"Error saving loan:", "Error processing request:">>
  ELSE IF at \in {"loanIncome", "saveTransaction"}
    THEN <<"Error saving transaction:", "Error processing request:">>
  ELSE IF at \in {"findLoans", "updateLoan"}
    THEN <<"Error recording loan repayment:", "Error processing request:">>
  ELSE IF at \in {"noMatchExpense", "repayExpense"}
    THEN <<"Error saving transaction:", "Error recording loan repayment:",
           "Error processing request:">>
  ELSE IF at = "saveFeedback" THEN <<"Error saving feedback:", "Error saving feedback:">>
  ELSE <<>>

\* ------------------------------------------------------- POST /api/process
\* The bodies a request arrives with: the user id (or none), the mode, and
\* whether there is a text and an uploaded file.
Payloads ==
  { [mode |-> "text", text |-> TRUE, file |-> FALSE],
    [mode |-> "voice", text |-> FALSE, file |-> TRUE],
    [mode |-> "text", text |-> FALSE, file |-> FALSE],
    [mode |-> "voice", text |-> TRUE, file |-> FALSE],
    [mode |-> "", text |-> TRUE, file |-> FALSE] }

\* Mutant: the user id is not checked.
Route_AnyUser(userId, body) ==
  IF body.mode = "voice" /\ body.file THEN "transcribe"
  ELSE IF body.mode = "text" /\ body.text THEN "extract"
  ELSE "rejected"

\* The validation of the body: where the handler goes first.
Route(userId, body) ==
  IF userId = "" THEN "rejected"
  ELSE IF body.mode = "voice" /\ body.file THEN "transcribe"
  ELSE IF body.mode = "text" /\ body.text THEN "extract"
  ELSE "rejected"

ValidationError(userId) ==
  IF userId = "" THEN "userId is required" ELSE "Invalid mode or missing data"

\* A request of one of `users` with one of `bodies` arrives, while fewer than
\* `max` have: it is rejected, or goes on to the transcription of the uploaded
\* file or to the extraction from the text.
ReceiveFrom(p, max, users, bodies) ==
  /\ pc[p] = "idle"
  /\ started < max
  /\ \E userId \in users, body \in bodies :
       /\ req' = [req EXCEPT ![p] =
                    [NoReq EXCEPT !.userId = userId, !.body = body,
                                  !.settled = {i \in Stored : loans[i].status = "paid_off"}]]
       /\ pc' = [pc EXCEPT ![p] = Route(userId, body)]
       /\ res' = [res EXCEPT ![p] = IF Route(userId, body) = "rejected"
                                      THEN Rejected(ValidationError(userId)) ELSE NoRes]
  /\ started' = started + 1
  /\ UNCHANGED <<loans, txns, loan, clamped, feedback, caller>>

Receive(p) == ReceiveFrom(p, MaxRequests, Users \cup {""}, Payloads)

\* transcribeAudio returns the text of the uploaded file.
TranscribeAudio(p) ==
  /\ pc[p] = "transcribe"
  /\ pc' = [pc EXCEPT ![p] = "extract"]
  /\ UNCHANGED <<loans, txns, req, loan, res, started, clamped, feedback, caller>>

\* The extraction service answers parsedData, one of `outputs`; after the
\* defaulting the handler reaches its first store call, or answers at once when
\* the required fields are missing. The body is read no more.
ExtractFrom(p, outputs) ==
  /\ pc[p] = "extract"
  /\ \E parsedData \in outputs :
       LET data == extractExpenseData(parsedData) IN
       /\ req' = [req EXCEPT ![p] = [req[p] EXCEPT !.body = NoBody, !.raw = parsedData,
                                                   !.data = data]]
       /\ pc' = [pc EXCEPT ![p] = Dispatch(data)]
       /\ res' = [res EXCEPT ![p] = IF Dispatch(data) = "done" THEN CouldNotExtract ELSE NoRes]
  /\ UNCHANGED <<loans, txns, loan, started, clamped, feedback, caller>>

Extract(p) == ExtractFrom(p, RawOutputs)

\* The transcription or the extraction throws (the service fails, or its answer
\* is not JSON): the error goes up to the handler's catch block.
ServiceCalls == {"transcribe", "extract"}

\* Mutant: the failed request leaves a transaction of amount 0 behind.
ServiceError_Write(p) ==
  /\ pc[p] \in ServiceCalls
  /\ pc' = [pc EXCEPT ![p] = "error"]
  /\ res' = [res EXCEPT ![p] = Failed(pc[p])]
  /\ txns' = txns (+) SetToBag({TxnRow(req[p].userId, Num(0), "other", "text", "expense", 0)})
  /\ UNCHANGED <<loans, req, loan, started, clamped, feedback, caller>>

ServiceError(p) ==
  /\ pc[p] \in ServiceCalls
  /\ pc' = [pc EXCEPT ![p] = "error"]
  /\ res' = [res EXCEPT ![p] = Failed(pc[p])]
  /\ UNCHANGED <<loans, txns, req, loan, started, clamped, feedback, caller>>

\* Any store call of a request in flight returns an error: the call writes
\* nothing, the error is thrown up to the handler's catch block.
StoreCalls ==
  {"saveLoan", "loanIncome", "findLoans", "noMatchExpense", "updateLoan",
   "repayExpense", "saveTransaction", "saveFeedback"}

\* Mutant: a failed expense insert puts the loan back as it was read.
StoreError_Rollback(p) ==
  /\ pc[p] \in StoreCalls
  /\ pc' = [pc EXCEPT ![p] = "error"]
  /\ res' = [res EXCEPT ![p] = Failed(pc[p])]
  /\ loans' = IF pc[p] = "repayExpense" /\ loan[p].id \in Stored
                THEN [loans EXCEPT ![loan[p].id] = loan[p]]
                ELSE loans
  /\ UNCHANGED <<txns, req, loan, started, clamped, feedback, caller>>

\* Mutant: the update that reports an error has changed the row all the same.
StoreError_UpdateApplied(p) ==
  /\ pc[p] \in StoreCalls
  /\ pc' = [pc EXCEPT ![p] = "error"]
  /\ res' = [res EXCEPT ![p] = Failed(pc[p])]
  /\ loans' = IF pc[p] = "updateLoan" /\ ~IsNaN(req[p].data.amount)
                THEN ApplyUpdate(loans, loan[p], req[p].data.amount)
                ELSE loans
  /\ UNCHANGED <<txns, req, loan, started, clamped, feedback, caller>>

StoreError(p) ==
  /\ pc[p] \in StoreCalls
  /\ pc' = [pc EXCEPT ![p] = "error"]
  /\ res' = [res EXCEPT ![p] = Failed(pc[p])]
  /\ UNCHANGED <<loans, txns, req, loan, started, clamped, feedback, caller>>

\* new_loan: saveLoan({ userId, ...extractedData }); start_date is data.date
SaveLoan(p) ==
  /\ pc[p] = "saveLoan"
  /\ IF StoreAccepts(req[p].data.principal_amount) /\ DateAccepts(req[p].data.date)
       THEN /\ loans' = Append(loans, NewLoanRow(Len(loans) + 1, req[p].userId, req[p].data))
            /\ pc' = [pc EXCEPT ![p] = "loanIncome"]
            /\ res' = res
       ELSE /\ pc' = [pc EXCEPT ![p] = "error"]
            /\ res' = [res EXCEPT ![p] = Failed("saveLoan")]
            /\ loans' = loans
  /\ UNCHANGED <<txns, req, loan, started, clamped, feedback, caller>>

\* Mutant: the income transaction is inserted twice.
LoanIncome_Twice(p) ==
  /\ pc[p] = "loanIncome"
  /\ txns' = txns (+) SetToBag({TxnRow(req[p].userId, req[p].data.principal_amount, "loan",
                                 "Loan from", "income", 0)})
                  (+) SetToBag({TxnRow(req[p].userId, req[p].data.principal_amount, "loan",
                                 "Loan from", "income", 0)})
  /\ pc' = [pc EXCEPT ![p] = "done"]
  /\ res' = [res EXCEPT ![p] = [NoRes EXCEPT !.http = 200, !.message = "Loan recorded"]]
  /\ UNCHANGED <<loans, req, loan, started, clamped, feedback, caller>>

\* new_loan: the income transaction for the money received
LoanIncome(p) ==
  /\ pc[p] = "loanIncome"
  /\ txns' = txns (+) SetToBag({TxnRow(req[p].userId, req[p].data.principal_amount, "loan",
                                 "Loan from", "income", 0)})
  /\ pc' = [pc EXCEPT ![p] = "done"]
  /\ res' = [res EXCEPT ![p] = [NoRes EXCEPT !.http = 200, !.message = "Loan recorded"]]
  /\ UNCHANGED <<loans, req, loan, started, clamped, feedback, caller>>

\* transaction: saveTransaction, then generateResponseMessage. The row takes
\* extractedData.category || "other" and extractedData.notes || inputText.
SaveTransaction(p) ==
  /\ pc[p] = "saveTransaction"
  /\ IF StoreAccepts(req[p].data.amount) /\ DateAccepts(req[p].data.date)
       THEN /\ txns' = txns (+) SetToBag({TxnRow(req[p].userId, req[p].data.amount,
                                           IF req[p].data.category = "" THEN "other"
                                                                        ELSE req[p].data.category,
                                           IF req[p].data.notes = "" THEN inputText
                                                                     ELSE req[p].data.notes,
                                           req[p].data.type, 0)})
            /\ pc' = [pc EXCEPT ![p] = "done"]
            /\ res' = [res EXCEPT ![p] = [NoRes EXCEPT !.http = 200, !.message = "Successfully recorded"]]
       ELSE /\ pc' = [pc EXCEPT ![p] = "error"]
            /\ res' = [res EXCEPT ![p] = Failed("saveTransaction")]
            /\ txns' = txns
  /\ UNCHANGED <<loans, req, loan, started, clamped, feedback, caller>>

\* ------------------------------------------------------- recordLoanRepayment
\* The select of the active loans of the user that match the lender name.
\* loans[0] is any of the rows returned: the query states no order.
FindLoans(p) ==
  /\ pc[p] = "findLoans"
  /\ LET found == MatchingLoans(req[p].userId, req[p].data.lender_name) IN
       IF found = {}
         THEN /\ pc' = [pc EXCEPT ![p] = "noMatchExpense"]
              /\ loan' = loan
         ELSE /\ \E i \in found : loan' = [loan EXCEPT ![p] = loans[i]]
              /\ pc' = [pc EXCEPT ![p] = "updateLoan"]
  /\ UNCHANGED <<loans, txns, req, res, started, clamped, feedback, caller>>

\* No matching loan: the repayment is saved as an expense and { loan: null } returned.
NoMatchExpense(p) ==
  /\ pc[p] = "noMatchExpense"
  /\ IF StoreAccepts(req[p].data.amount) /\ DateAccepts(req[p].data.date)
       THEN /\ txns' = txns (+) SetToBag({TxnRow(req[p].userId, req[p].data.amount, "loan_repayment",
                                           "no matching loan found", "expense", 0)})
            /\ pc' = [pc EXCEPT ![p] = "done"]
            /\ res' = [res EXCEPT ![p] =
                 [NoRes EXCEPT !.http = 200,
                               !.message = generateRepaymentResponseMessage([loan |-> NullLoan])]]
       ELSE /\ pc' = [pc EXCEPT ![p] = "error"]
            /\ res' = [res EXCEPT ![p] = Failed("noMatchExpense")]
            /\ txns' = txns
  /\ UNCHANGED <<loans, req, loan, started, clamped, feedback, caller>>

\* The update of the matched loan. A NaN serialises to null, which the NOT NULL
\* remaining_balance of a row refuses; an update that reaches no row refuses nothing.
UpdateLoan(p) ==
  /\ pc[p] = "updateLoan"
  /\ IF IsNaN(req[p].data.amount)
       THEN IF loan[p].id \in Stored
              THEN /\ pc' = [pc EXCEPT ![p] = "error"]
                   /\ res' = [res EXCEPT ![p] = Failed("updateLoan")]
                   /\ UNCHANGED <<loans, clamped>>
              ELSE /\ pc' = [pc EXCEPT ![p] = "repayExpense"]
                   /\ UNCHANGED <<loans, clamped, res>>
       ELSE /\ loans' = ApplyUpdate(loans, loan[p], req[p].data.amount)
            /\ clamped' = IF loan[p].id \in Stored
                            THEN IF NewRemaining(loan[p], req[p].data.amount) < 0
                                   THEN clamped \cup {loan[p].id}
                                   ELSE clamped \ {loan[p].id}
                            ELSE clamped
            /\ pc' = [pc EXCEPT ![p] = "repayExpense"]
            /\ res' = res
  /\ UNCHANGED <<txns, req, loan, started, feedback, caller>>

\* The expense transaction of the repayment, then the returned result.
RepayExpense(p) ==
  /\ pc[p] = "repayExpense"
  /\ IF StoreAccepts(req[p].data.amount) /\ DateAccepts(req[p].data.date)
       THEN /\ txns' = txns (+) SetToBag({TxnRow(req[p].userId, req[p].data.amount, "loan_repayment",
                                           "Loan repayment to", "expense", loan[p].id)})
            /\ pc' = [pc EXCEPT ![p] = "done"]
            /\ res' = [res EXCEPT ![p] =
                 [NoRes EXCEPT !.http = 200,
                               !.loan = Snapshot(loan[p], req[p].data.amount),
                               !.message = generateRepaymentResponseMessage(
                                             [loan |-> Snapshot(loan[p], req[p].data.amount)])]]
       ELSE /\ pc' = [pc EXCEPT ![p] = "error"]
            /\ res' = [res EXCEPT ![p] = Failed("repayExpense")]
            /\ txns' = txns
  /\ UNCHANGED <<loans, req, loan, started, clamped, feedback, caller>>

\* ------------------------------------------------------- POST /api/feedback
\* The ratings a feedback arrives with: none, numbers at and around the two
\* limits, and a string that is no number.
Ratings == {Absent, NonNum} \cup {Num(n) : n \in {MinRating - 1, MinRating, MaxRating, MaxRating + 1}}

FeedbackBodies ==
  {[userId |-> "u1", rating |-> r] : r \in Ratings} \cup {[userId |-> "", rating |-> Num(MaxRating)]}

\* rating < n and rating > n of JavaScript: the rating is converted by
\* Number(rating) (null and "" give 0), and the comparison is false when that
\* is NaN (undefined, a string that is no number).
Below(v, n) == ~IsNaN(v) /\ v.n < n
Above(v, n) == ~IsNaN(v) /\ v.n > n

\* The validation of the feedback: the message of the 400 response, "" when
\* the feedback passes.
FeedbackError(userId, rating) ==
  IF userId = "" THEN "userId is required"
  ELSE IF ~Truthy(rating) \/ Below(rating, MinRating) \/ Above(rating, MaxRating)
    THEN "rating must be between 1 and 5"
  ELSE ""

ReceiveFeedback(p) ==
  /\ pc[p] = "idle"
  /\ started < MaxRequests
  /\ \E b \in FeedbackBodies :
       /\ req' = [req EXCEPT ![p] = [NoReq EXCEPT !.userId = b.userId, !.rating = b.rating]]
       /\ pc' = [pc EXCEPT ![p] = IF FeedbackError(b.userId, b.rating) = ""
                                    THEN "saveFeedback" ELSE "rejected"]
       /\ res' = [res EXCEPT ![p] = IF FeedbackError(b.userId, b.rating) = ""
                                      THEN NoRes ELSE Rejected(FeedbackError(b.userId, b.rating))]
  /\ started' = started + 1
  /\ UNCHANGED <<loans, txns, loan, clamped, feedback, caller>>

\* rating INTEGER NOT NULL CHECK (rating >= 1 AND rating <= 5)
FeedbackAccepts(rating) ==
  rating.t \in {"num", "numstr"} /\ rating.n >= MinRating /\ rating.n <= MaxRating

\* saveFeedback inserts the row, then the handler answers.
SaveFeedback(p) ==
  /\ pc[p] = "saveFeedback"
  /\ IF FeedbackAccepts(req[p].rating)
       THEN /\ feedback' = feedback (+) SetToBag({[user_id |-> req[p].userId,
                                                    rating |-> req[p].rating.n]})
            /\ pc' = [pc EXCEPT ![p] = "done"]
            /\ res' = [res EXCEPT ![p] = [NoRes EXCEPT !.http = 200,
                                                       !.message = "Feedback submitted successfully"]]
       ELSE /\ pc' = [pc EXCEPT ![p] = "error"]
            /\ res' = [res EXCEPT ![p] = Failed("saveFeedback")]
            /\ feedback' = feedback
  /\ UNCHANGED <<loans, txns, req, loan, started, clamped, caller>>

\* The response has been sent: the slot serves the next request.
Respond(p) ==
  /\ pc[p] \in {"done", "error", "rejected"}
  /\ pc' = [pc EXCEPT ![p] = "idle"]
  /\ req' = [req EXCEPT ![p] = NoReq]
  /\ loan' = [loan EXCEPT ![p] = NullLoan]
  /\ res' = [res EXCEPT ![p] = NoRes]
  /\ UNCHANGED <<loans, txns, started, clamped, feedback, caller>>

\* ------------------------------------------------------- DELETE endpoints
\* DELETE /api/loans/:id -> deleteLoan(id): .delete().eq("id", loanId)
\* The request carries the id alone: any user may have sent it.
DeleteLoan ==
  /\ started < MaxRequests
  /\ \E id \in Stored : loans' = [loans EXCEPT ![id].deleted = TRUE]
  /\ \E userId \in Users : caller' = userId
  /\ started' = started + 1
  /\ UNCHANGED <<txns, pc, req, loan, res, clamped, feedback>>

\* DELETE /api/transactions/:id -> deleteTransaction(id)
DeleteTransaction ==
  /\ started < MaxRequests
  /\ \E row \in BagToSet(txns) : txns' = txns (-) SetToBag({row})
  /\ \E userId \in Users : caller' = userId
  /\ started' = started + 1
  /\ UNCHANGED <<loans, pc, req, loan, res, clamped, feedback>>

Next ==
  \/ \E p \in Procs : Receive(p)
  \/ \E p \in Procs : TranscribeAudio(p)
  \/ \E p \in Procs : Extract(p)
  \/ \E p \in Procs : ServiceError(p)
  \/ \E p \in Procs : StoreError(p)
  \/ \E p \in Procs : SaveLoan(p)
  \/ \E p \in Procs : LoanIncome(p)
  \/ \E p \in Procs : SaveTransaction(p)
  \/ \E p \in Procs : FindLoans(p)
  \/ \E p \in Procs : NoMatchExpense(p)
  \/ \E p \in Procs : UpdateLoan(p)
  \/ \E p \in Procs : RepayExpense(p)
  \/ \E p \in Procs : ReceiveFeedback(p)
  \/ \E p \in Procs : SaveFeedback(p)
  \/ \E p \in Procs : Respond(p)
  \/ DeleteLoan
  \/ DeleteTransaction

Spec == Init /\ [][Next]_vars

\* ------------------------------------------------------- the extraction alone
\* Every raw output of the extraction service, field by field: the text
\* requests in flight have reached the extraction, which answers any of them.
RawProduct ==
  [intent : {"", "chat", "transaction", "new_loan", "loan_repayment"},
   lender_name : {<<"a">>},
   amount : {Absent, Null, Cents(1)},
   principal_amount : {Cents(1)},
   type : {"income"},
   currency : {"", "USD"},
   date : {NoDate, IsoDate(2024, 2, 29), IsoDate(2023, 2, 30), Words},
   category : {"", "salary"},
   notes : {""}]

ExtractInit ==
  /\ loans = <<>>
  /\ txns = EmptyBag
  /\ pc = [p \in Procs |-> "extract"]
  /\ req = [p \in Procs |-> [NoReq EXCEPT !.userId = "u1",
                                          !.body = [mode |-> "text", text |-> TRUE, file |-> FALSE]]]
  /\ loan = [p \in Procs |-> NullLoan]
  /\ res = [p \in Procs |-> NoRes]
  /\ started = NumProcs
  /\ clamped = {}
  /\ feedback = EmptyBag
  /\ caller = ""

ExtractNext == \E p \in Procs : ExtractFrom(p, RawProduct)

ExtractSpec == ExtractInit /\ [][ExtractNext]_vars

\* ------------------------------------------------------- repayments one by one
\* The requests to /api/process when every store call returns, no DELETE
\* request is sent, and a repayment begins only while no other repayment is
\* between its select and its response.
InRepayment(q) == pc[q] \in {"findLoans", "noMatchExpense", "updateLoan", "repayExpense"}

SeqExtract(p) ==
  /\ Extract(p)
  /\ req'[p].data.intent = "loan_repayment" => \A q \in Procs \ {p} : ~InRepayment(q)

SeqNext ==
  \/ \E p \in Procs : Receive(p)
  \/ \E p \in Procs : TranscribeAudio(p)
  \/ \E p \in Procs : SeqExtract(p)
  \/ \E p \in Procs : SaveLoan(p)
  \/ \E p \in Procs : LoanIncome(p)
  \/ \E p \in Procs : SaveTransaction(p)
  \/ \E p \in Procs : FindLoans(p)
  \/ \E p \in Procs : NoMatchExpense(p)
  \/ \E p \in Procs : UpdateLoan(p)
  \/ \E p \in Procs : RepayExpense(p)
  \/ \E p \in Procs : Respond(p)

SeqSpec == Init /\ [][SeqNext]_vars

\* ------------------------------------------------------- the ledger of one user
\* The text requests of one user for loans and repayments, every call of the
\* store answering as the tables decide: amounts of whole hundredths and of
\* fractions of one (0.0025, 0.005, 0.0075), a principal spelled as the string
\* "0", and a repayment whose date is no date.
LedgerOutputs ==
  { Raw("new_loan", <<"A", "b">>, Absent, Cents(MaxAmount), ""),
    Raw("new_loan", <<"A", "b">>, Absent, Cents(MaxAmount + 1), ""),
    Raw("new_loan", <<"A", "b">>, Absent, NumStr(0), ""),
    Raw("new_loan", <<"A", "b">>, Absent, Num(1), ""),
    Raw("loan_repayment", <<"a">>, Cents(MaxAmount), Absent, ""),
    Raw("loan_repayment", <<"a">>, Cents(1), Absent, ""),
    Raw("loan_repayment", <<"a">>, Num(Cent \div 2), Absent, ""),
    Raw("loan_repayment", <<"a">>, Num(Cent - 1), Absent, ""),
    [Raw("loan_repayment", <<"a">>, Cents(1), Absent, "") EXCEPT !.date = Words] }

LedgerNext ==
  \/ \E p \in Procs : ReceiveFrom(p, MaxLedgerRequests, {"u1"},
                                  {[mode |-> "text", text |-> TRUE, file |-> FALSE]})
  \/ \E p \in Procs : ExtractFrom(p, LedgerOutputs)
  \/ \E p \in Procs : SaveLoan(p)
  \/ \E p \in Procs : LoanIncome(p)
  \/ \E p \in Procs : FindLoans(p)
  \/ \E p \in Procs : NoMatchExpense(p)
  \/ \E p \in Procs : UpdateLoan(p)
  \/ \E p \in Procs : RepayExpense(p)
  \/ \E p \in Procs : Respond(p)

LedgerSpec == Init /\ [][LedgerNext]_vars

\* The same requests when every insert is accepted (the outputs with a date the
\* store takes) and a repayment begins only while no other repayment is
\* between its select and its response.
SeqLedgerExtract(p) ==
  /\ ExtractFrom(p, {r \in LedgerOutputs : DateAccepts(DateOf(r))})
  /\ req'[p].data.intent = "loan_repayment" => \A q \in Procs \ {p} : ~InRepayment(q)

SeqLedgerNext ==
  \/ \E p \in Procs : ReceiveFrom(p, MaxLedgerRequests, {"u1"},
                                  {[mode |-> "text", text |-> TRUE, file |-> FALSE]})
  \/ \E p \in Procs : SeqLedgerExtract(p)
  \/ \E p \in Procs : SaveLoan(p)
  \/ \E p \in Procs : LoanIncome(p)
  \/ \E p \in Procs : FindLoans(p)
  \/ \E p \in Procs : NoMatchExpense(p)
  \/ \E p \in Procs : UpdateLoan(p)
  \/ \E p \in Procs : RepayExpense(p)
  \/ \E p \in Procs : Respond(p)

SeqLedgerSpec == Init /\ [][SeqLedgerNext]_vars

\* ------------------------------------------------------- properties
\* Request p takes a step (every step of a request moves its pc).
Steps(p) == pc'[p] # pc[p]

\* Request p's update of the matched loan returns without error.
Updates(p) == pc[p] = "updateLoan" /\ pc'[p] = "repayExpense"

\* The amount of request p's repayment, a number.
Amount(p) == req[p].data.amount.n

\* C1: a repayment of A > 0 with A <= R, R and T being the remaining_balance and
\* total_paid of the matched loan as recordLoanRepayment read them, writes
\* remaining_balance = R - A and total_paid = T + A, with status "active" if
\* R - A > 0 and "paid_off" if R - A = 0.
C1_RepaymentWithinBalance ==
  [][\A p \in Procs :
       (/\ Updates(p)
        /\ loan[p].id \in Stored
        /\ ~IsNaN(req[p].data.amount)
        /\ Amount(p) > 0
        /\ Amount(p) <= loan[p].remaining_balance)
       => /\ loans'[loan[p].id].remaining_balance = loan[p].remaining_balance - Amount(p)
          /\ loans'[loan[p].id].total_paid = loan[p].total_paid + Amount(p)
          /\ loans'[loan[p].id].status =
               IF loan[p].remaining_balance - Amount(p) > 0 THEN "active" ELSE "paid_off"]_vars

\* A repayment within the balance has been written and left the loan active.
C1_Witness ==
  \E p \in Procs :
    /\ pc[p] = "repayExpense"
    /\ loan[p].id \in Stored
    /\ ~IsNaN(req[p].data.amount)
    /\ Amount(p) > 0
    /\ Amount(p) < loan[p].remaining_balance
    /\ loans[loan[p].id].status = "active"
    /\ loans[loan[p].id].total_paid = loan[p].total_paid + Amount(p)
    /\ loans[loan[p].id].remaining_balance = loan[p].remaining_balance - Amount(p)

\* C2: a repayment of A > R writes remaining_balance = 0 and status "paid_off",
\* and the step changes no other loan (the excess goes nowhere).
C2_Overpayment ==
  [][\A p \in Procs :
       (/\ Updates(p)
        /\ loan[p].id \in Stored
        /\ ~IsNaN(req[p].data.amount)
        /\ Amount(p) > loan[p].remaining_balance)
       => /\ loans'[loan[p].id].remaining_balance = 0
          /\ loans'[loan[p].id].status = "paid_off"
          /\ \A j \in DOMAIN loans : j # loan[p].id => loans'[j] = loans[j]]_vars

\* An overpayment has been written while the user has another active loan.
C2_Witness ==
  \E p \in Procs :
    /\ pc[p] = "repayExpense"
    /\ loan[p].id \in Stored
    /\ ~IsNaN(req[p].data.amount)
    /\ loan[p].remaining_balance > 0
    /\ Amount(p) > loan[p].remaining_balance
    /\ loans[loan[p].id].remaining_balance = 0
    /\ loans[loan[p].id].status = "paid_off"
    /\ \E j \in Stored : /\ j # loan[p].id
                         /\ loans[j].user_id = req[p].userId
                         /\ loans[j].status = "active"

\* C3: every stored loan has total_paid + remaining_balance = principal_amount,
\* except a loan whose last repayment overshot the remaining balance it read and
\* was floored at 0.
C3_PaidPlusRemainingIsPrincipal ==
  \A i \in Stored :
    \/ loans[i].total_paid + loans[i].remaining_balance = loans[i].principal_amount
    \/ i \in clamped /\ loans[i].remaining_balance = 0

\* The same for the numbers of the update before their columns round them: the
\* update of a repayment that does not overshoot the balance it read sends a
\* total_paid and a remaining_balance that add up to those it read.
C3_PayloadKeepsSum ==
  [][\A p \in Procs :
       (Updates(p) /\ ~IsNaN(req[p].data.amount)
          /\ NewRemaining(loan[p], req[p].data.amount) >= 0)
         => Repaid(loan[p], req[p].data.amount).total_paid
              + Repaid(loan[p], req[p].data.amount).remaining_balance
            = loan[p].total_paid + loan[p].remaining_balance]_vars

\* C4: every stored loan has status "paid_off" if and only if its
\* remaining_balance is 0.
C4_PaidOffIffZeroRemaining ==
  \A i \in Stored : loans[i].status = "paid_off" <=> loans[i].remaining_balance = 0

\* An update whose double sum fell below the half is stored: request p has read
\* a remaining_balance of 0.03 and repaid 0.005, and the row holds 0.02 where
\* the exact difference, 0.025, rounds to 0.03.
SumBelowHalfStored ==
  \E p \in Procs :
    /\ pc[p] = "repayExpense"
    /\ loan[p].id \in Stored
    /\ req[p].data.amount = Num(Cent \div 2)
    /\ loan[p].remaining_balance = (MaxAmount + 1) * Cent
    /\ loans[loan[p].id].remaining_balance = MaxAmount * Cent
    /\ loans[loan[p].id].total_paid = loan[p].total_paid + Cent

\* One half of it: a stored loan that is "paid_off" has remaining_balance 0.
C4_PaidOffHasZeroRemaining ==
  \A i \in Stored : loans[i].status = "paid_off" => loans[i].remaining_balance = 0

\* Request p writes a repayment of a positive amount.
RepaysPositive(p) == Updates(p) /\ ~IsNaN(req[p].data.amount) /\ Amount(p) > 0

\* C5: from one stored state to the next, no loan's total_paid decreases and no
\* loan's remaining_balance increases or is below 0. Stated for the writes of
\* repayments of positive amounts to loans of positive principal, concurrent
\* ones included.
C5_MonotoneBalances ==
  [][\A p \in Procs : RepaysPositive(p) =>
       \A i \in Stored :
         loans[i].principal_amount > 0 =>
           /\ loans'[i].total_paid >= loans[i].total_paid
           /\ loans'[i].remaining_balance <= loans[i].remaining_balance
           /\ loans'[i].remaining_balance >= 0]_vars

\* C6: a loan stored as "paid_off" is never stored as "active" afterwards.
\* Stated for the writes of repayments of positive amounts, including the write
\* of a repayment that read the loan before it was paid off.
C6_PaidOffIsFinal ==
  [][\A p \in Procs : RepaysPositive(p) =>
       \A i \in Stored :
         loans[i].status = "paid_off" => loans'[i].status = "paid_off"]_vars

\* Request p's select of the matching loans returns without error.
Selects(p) == pc[p] = "findLoans" /\ pc'[p] \in {"updateLoan", "noMatchExpense"}

\* C7: a repayment never selects a loan that was "paid_off" when the request
\* arrived; when the user has no other matching active loan the request takes
\* the no-match path, whose steps change no loan.
C7_PaidOffNeverSelectedAgain ==
  [][\A p \in Procs :
       /\ Selects(p) =>
            /\ loan'[p].id \notin req[p].settled
            /\ (~\E i \in Stored \ req[p].settled :
                     /\ loans[i].user_id = req[p].userId
                     /\ loans[i].status = "active"
                     /\ ILike(loans[i].lender_name, req[p].data.lender_name))
                 => pc'[p] = "noMatchExpense"
       /\ pc[p] = "noMatchExpense" /\ Steps(p) => loans' = loans]_vars

\* The same for the status at the moment of the select: the select never
\* returns a loan that is "paid_off" when the select runs; when the user has no
\* other matching active loan the request takes the no-match path, whose steps
\* change no loan.
C7_PaidOffNeverMatched ==
  [][\A p \in Procs :
       /\ Selects(p) =>
            /\ \A i \in Stored : loans[i].status = "paid_off" => loan'[p].id # i
            /\ (~\E i \in Stored : /\ loans[i].user_id = req[p].userId
                                   /\ loans[i].status = "active"
                                   /\ ILike(loans[i].lender_name, req[p].data.lender_name))
                 => pc'[p] = "noMatchExpense"
       /\ pc[p] = "noMatchExpense" /\ Steps(p) => loans' = loans]_vars

\* A repayment has taken the no-match path although a paid-off loan of its user
\* carries the lender name.
C7_Witness ==
  \E p \in Procs :
    /\ pc[p] = "noMatchExpense"
    /\ \E i \in Stored : /\ loans[i].status = "paid_off"
                         /\ loans[i].user_id = req[p].userId
                         /\ ILike(loans[i].lender_name, req[p].data.lender_name)

\* stored contains name, letter case ignored: name is a run of stored.
Contains(stored, name) ==
  \E k \in 0..(Len(stored) - Len(name)) :
    \A j \in 1..Len(name) : Lower(stored[k + j]) = Lower(name[j])

\* C8: when no active loan of the requesting user has a lender name that
\* contains the repayment's lender name, letter case ignored, the call mutates
\* no loan, inserts exactly one expense transaction of category "loan_repayment"
\* with the "no matching loan found" notes, and returns loan = null.
C8_NoContainingLoanNoMatch ==
  [][\A p \in Procs :
       /\ (/\ Selects(p)
           /\ ~\E i \in Stored : /\ loans[i].user_id = req[p].userId
                                 /\ loans[i].status = "active"
                                 /\ Contains(loans[i].lender_name, req[p].data.lender_name))
            => pc'[p] = "noMatchExpense" /\ loans' = loans
       /\ (pc[p] = "noMatchExpense" /\ pc'[p] = "done")
            => /\ loans' = loans
               /\ txns' = txns (+) SetToBag({[user_id |-> req[p].userId, amount |-> Amount(p),
                                              category |-> "loan_repayment",
                                              notes |-> "no matching loan found",
                                              type |-> "expense", loan_id |-> 0]})
               /\ res'[p].loan = NullLoan]_vars

\* The same with the select's own ILIKE match in place of containment.
C8_NoILikeLoanNoMatch ==
  [][\A p \in Procs :
       /\ (/\ Selects(p)
           /\ ~\E i \in Stored : /\ loans[i].user_id = req[p].userId
                                 /\ loans[i].status = "active"
                                 /\ ILike(loans[i].lender_name, req[p].data.lender_name))
            => pc'[p] = "noMatchExpense" /\ loans' = loans
       /\ (pc[p] = "noMatchExpense" /\ pc'[p] = "done")
            => /\ loans' = loans
               /\ txns' = txns (+) SetToBag({[user_id |-> req[p].userId, amount |-> Amount(p),
                                              category |-> "loan_repayment",
                                              notes |-> "no matching loan found",
                                              type |-> "expense", loan_id |-> 0]})
               /\ res'[p].loan = NullLoan]_vars

\* The number of expense rows reconciled against loan id.
RepaymentRows(id) ==
  LET rows == {r \in BagToSet(txns) : r.loan_id = id /\ r.category = "loan_repayment"}
  IN  BagCardinality([r \in rows |-> CopiesIn(r, txns)])

\* C9: the update has no version check: when the row has changed since the
\* request read it, the update still succeeds and overwrites the row with
\* total_paid = T + A and remaining_balance = max(0, R - A) computed from the
\* values T and R that were read.
C9_StaleWriteOverwrites ==
  [][\A p \in Procs :
       (/\ pc[p] = "updateLoan" /\ Steps(p)
        /\ loan[p].id \in Stored
        /\ ~IsNaN(req[p].data.amount)
        /\ loans[loan[p].id] # loan[p])
       => \/ pc'[p] = "error" /\ loans' = loans
          \/ /\ pc'[p] = "repayExpense"
             /\ loans'[loan[p].id].total_paid = loan[p].total_paid + Amount(p)
             /\ loans'[loan[p].id].remaining_balance =
                  IF loan[p].remaining_balance - Amount(p) > 0
                    THEN loan[p].remaining_balance - Amount(p) ELSE 0]_vars

\* Two repayments of positive amounts read the same row, both completed with a
\* 200 response and two expense rows, and the loan holds only the later one.
C9_Witness ==
  \E p, q \in Procs :
    /\ p # q
    /\ pc[p] = "done" /\ pc[q] = "done"
    /\ res[p].http = 200 /\ res[q].http = 200
    /\ req[p].data.intent = "loan_repayment" /\ req[q].data.intent = "loan_repayment"
    /\ Amount(p) > 0 /\ Amount(q) > 0
    /\ loan[p].id \in Stored
    /\ loan[p] = loan[q]
    /\ loans[loan[q].id].total_paid = loan[q].total_paid + Amount(q)
    /\ loans[loan[q].id].remaining_balance = Max0(loan[q].remaining_balance - Amount(q))
    /\ loans[loan[q].id].total_paid < loan[q].total_paid + Amount(p) + Amount(q)
    /\ RepaymentRows(loan[q].id) = 2

\* C10: when the expense insert of a repayment fails after the loan update, the
\* request ends in the error response, nothing is rolled back and nothing more
\* is written by the request: the loan keeps the updated fields and the store
\* holds no expense row for the repayment.
C10_NoRollback ==
  [][\A p \in Procs :
       /\ (pc[p] = "repayExpense" /\ pc'[p] = "error")
            => /\ res'[p].http = 500
               /\ loans' = loans
               /\ txns' = txns
       /\ (pc[p] = "error" /\ Steps(p))
            => /\ pc'[p] = "idle"
               /\ loans' = loans
               /\ txns' = txns]_vars

\* The insert has failed: the loan holds the repayment, no expense row exists.
C10_Witness ==
  \E p \in Procs :
    /\ pc[p] = "error"
    /\ res[p].at = "repayExpense"
    /\ ~IsNaN(req[p].data.amount)
    /\ Amount(p) > 0
    /\ loan[p].id \in Stored
    /\ loans[loan[p].id] # loan[p]
    /\ loans[loan[p].id] = Repaid(loan[p], req[p].data.amount)
    /\ RepaymentRows(loan[p].id) = 0

\* ------------------------------------------------------- extraction and dispatch
\* The extraction of request p returns: the step that leaves "extract" without error.
Extracts(p) == pc[p] = "extract" /\ pc'[p] \notin {"extract", "error"}

\* Request p is past the extraction and takes a step.
Proceeds(p) == Steps(p) /\ pc[p] \notin {"idle", "transcribe", "extract"}

\* A raw number that is absent, zero or not a number.
Unusable(v) == ~(v.t \in {"num", "numstr"} /\ v.n # 0)

LoanIntents == {"new_loan", "loan_repayment"}

\* C11: when the raw amount of a transaction-intent output is absent, zero or
\* not a number, the extracted amount is 0 and the handler answers without a
\* store call, so that no table changes.
C11_UnusableAmountWritesNothing ==
  [][\A p \in Procs :
       (Extracts(p) /\ req'[p].data.intent = "transaction" /\ Unusable(req'[p].raw.amount))
         => /\ req'[p].data.amount = Num(0)
            /\ pc'[p] = "done"
            /\ UNCHANGED <<loans, txns>>]_vars

\* The same for an amount that is absent or zero only.
C11_AbsentOrZeroWritesNothing ==
  [][\A p \in Procs :
       (Extracts(p) /\ req'[p].data.intent = "transaction" /\ ~Truthy(req'[p].raw.amount))
         => /\ req'[p].data.amount = Num(0)
            /\ pc'[p] = "done"
            /\ UNCHANGED <<loans, txns>>]_vars

\* C12: a raw output whose intent is neither new_loan nor loan_repayment is
\* extracted as a transaction, and the request goes to no loan call: no step of
\* it inserts or updates a row of the loans table.
C12_UnrecognizedIntentIsTransaction ==
  [][\A p \in Procs :
       /\ (Extracts(p) /\ req'[p].raw.intent \notin LoanIntents)
            => /\ req'[p].data.intent = "transaction"
               /\ pc'[p] \in {"saveTransaction", "done"}
               /\ loans' = loans
       /\ (Proceeds(p) /\ req[p].raw.intent \notin LoanIntents)
            => /\ pc'[p] \in {"done", "error", "idle"}
               /\ loans' = loans]_vars

\* A request with the unrecognized intent "chat" has been recorded as a transaction.
C12_Witness ==
  \E p \in Procs :
    /\ pc[p] = "done"
    /\ req[p].raw.intent = "chat"
    /\ req[p].data.intent = "transaction"
    /\ res[p].message = "Successfully recorded"
    /\ \E row \in BagToSet(txns) : row.user_id = req[p].userId /\ row.category = "other"
    /\ loans # <<>>

\* ------------------------------------------------------- currency and date
DaysIn(y, m) ==
  IF m = 2 THEN (IF y % 4 = 0 /\ (y % 100 # 0 \/ y % 400 = 0) THEN 29 ELSE 28)
  ELSE IF m \in {4, 6, 9, 11} THEN 30 ELSE 31

\* The date is a "YYYY-MM-DD" string that names a day of the calendar.
IsCalendarDate(v) == v.t = "date" /\ v.m \in 1..12 /\ v.d \in 1..DaysIn(v.y, v.m)

\* C13: whatever the raw output and the intent, the extracted record has a
\* currency that is not empty ("BDT" when the raw one is missing) and a date
\* that is a day of the calendar: the day of the request whenever the raw date
\* is missing or is no such day.
C13_CurrencyAndDateDefaulted ==
  [][\A p \in Procs :
       Extracts(p)
         => /\ req'[p].data.currency # ""
            /\ (req'[p].raw.currency = "" => req'[p].data.currency = "BDT")
            /\ IsCalendarDate(req'[p].data.date)
            /\ (~IsCalendarDate(req'[p].raw.date) => req'[p].data.date = defaultDate)]_vars

\* The same without the raw dates that are strings but no days of the calendar.
C13_MissingCurrencyAndDateDefaulted ==
  [][\A p \in Procs :
       Extracts(p)
         => /\ req'[p].data.currency # ""
            /\ (req'[p].raw.currency = "" => req'[p].data.currency = "BDT")
            /\ (req'[p].raw.date = NoDate => req'[p].data.date = defaultDate)
            /\ (IsCalendarDate(req'[p].raw.date) => req'[p].data.date = req'[p].raw.date)]_vars

\* ------------------------------------------------------- failures and validation
\* C14: when the transcription or the extraction of a request fails, the
\* request ends in the 500 response; it has written nothing before, writes
\* nothing afterwards and does not call the service again.
C14_ServiceFailureWritesNothing ==
  [][\A p \in Procs :
       /\ (Steps(p) /\ pc[p] \in {"idle"} \cup ServiceCalls)
            => UNCHANGED <<loans, txns>>
       /\ (pc[p] \in ServiceCalls /\ pc'[p] = "error")
            => /\ res'[p].http = 500
               /\ res'[p].at = pc[p]
       /\ (pc[p] = "error" /\ res[p].at \in ServiceCalls /\ Steps(p))
            => /\ pc'[p] = "idle"
               /\ UNCHANGED <<loans, txns>>]_vars

\* A transcription and an extraction have failed, next to a store that holds rows.
C14_Witness ==
  \E p, q \in Procs :
    /\ pc[p] = "error" /\ res[p].at = "transcribe" /\ res[p].http = 500
    /\ pc[q] = "error" /\ res[q].at = "extract" /\ res[q].http = 500
    /\ txns # EmptyBag

\* A request arrives at POST /api/process, at POST /api/feedback.
ArrivesProcess(p) == pc[p] = "idle" /\ pc'[p] # "idle" /\ req'[p].body # NoBody
ArrivesFeedback(p) == pc[p] = "idle" /\ pc'[p] # "idle" /\ req'[p].body = NoBody

\* The body names no mode, or lacks what the mode needs.
InvalidPayload(body) ==
  ~ \/ (body.mode = "voice" /\ body.file)
    \/ (body.mode = "text" /\ body.text)

\* The rating is missing, or a number outside MinRating..MaxRating.
OutOfRange(rating) ==
  rating.t \in {"absent", "null", "empty"}
    \/ (rating.t \in {"num", "numstr"} /\ rating.n \notin MinRating..MaxRating)

\* C15: a request to /api/process without user id or with an invalid mode or
\* payload, and a request to /api/feedback without user id or with a rating out
\* of range, is answered 400 at once: it reaches no transcription, extraction or
\* store call, and no table changes then or afterwards.
C15_InvalidRequestRejected ==
  [][\A p \in Procs :
       /\ (ArrivesProcess(p) /\ (req'[p].userId = "" \/ InvalidPayload(req'[p].body)))
            => /\ pc'[p] = "rejected"
               /\ res'[p].http = 400
               /\ UNCHANGED <<loans, txns, feedback>>
       /\ (ArrivesFeedback(p) /\ (req'[p].userId = "" \/ OutOfRange(req'[p].rating)))
            => /\ pc'[p] = "rejected"
               /\ res'[p].http = 400
               /\ UNCHANGED <<loans, txns, feedback>>
       /\ (pc[p] = "rejected" /\ Steps(p))
            => /\ pc'[p] = "idle"
               /\ UNCHANGED <<loans, txns, feedback>>]_vars

\* Both endpoints have rejected a request: one without user id, one with a
\* rating above the range.
C15_Witness ==
  \E p, q \in Procs :
    /\ pc[p] = "rejected" /\ req[p].body # NoBody /\ req[p].userId = ""
    /\ res[p].message = "userId is required"
    /\ pc[q] = "rejected" /\ req[q].rating = Num(MaxRating + 1)
    /\ res[q].message = "rating must be between 1 and 5"

\* ------------------------------------------------------- ownership
\* C16: every operation touches rows of the user it is issued for only: a
\* DELETE removes a loan or a transaction of the user who sent it, a repayment
\* selects and updates a loan of its user, and a request inserts rows of its user.
C16_OwnRowsOnly ==
  [][/\ \A i \in DOMAIN loans :
          (~loans[i].deleted /\ loans'[i].deleted) => loans[i].user_id = caller'
     /\ \A row \in BagToSet(txns) :
          CopiesIn(row, txns') < CopiesIn(row, txns) => row.user_id = caller'
     /\ \A p \in Procs :
          /\ (Selects(p) /\ pc'[p] = "updateLoan") => loan'[p].user_id = req[p].userId
          /\ Proceeds(p)
               => /\ \A i \in DOMAIN loans :
                       (loans'[i] # loans[i] /\ loans'[i].deleted = loans[i].deleted)
                         => loans[i].user_id = req[p].userId
                  /\ \A i \in DOMAIN loans' \ DOMAIN loans : loans'[i].user_id = req[p].userId
                  /\ \A row \in BagToSet(txns') :
                       CopiesIn(row, txns') > CopiesIn(row, txns) => row.user_id = req[p].userId]_vars

\* The same for the requests to /api/process alone, without the DELETE requests.
C16_ProcessTouchesOwnRows ==
  [][\A p \in Procs :
       /\ (Selects(p) /\ pc'[p] = "updateLoan") => loan'[p].user_id = req[p].userId
       /\ Proceeds(p)
            => /\ \A i \in DOMAIN loans : loans'[i] # loans[i] => loans[i].user_id = req[p].userId
               /\ \A i \in DOMAIN loans' \ DOMAIN loans : loans'[i].user_id = req[p].userId
               /\ \A row \in BagToSet(txns') :
                    CopiesIn(row, txns') > CopiesIn(row, txns) => row.user_id = req[p].userId]_vars

\* ------------------------------------------------------- new loan
\* The principal of the new_loan request p, when it is a number.
Principal(p) == req[p].data.principal_amount.n

IncomeRow(p) ==
  [user_id |-> req[p].userId, amount |-> Principal(p), category |-> "loan",
   notes |-> "Loan from", type |-> "income", loan_id |-> 0]

\* C17: a new_loan request with a principal P > 0 goes to saveLoan, which
\* inserts one loan of the requesting user with remaining_balance P, total_paid
\* 0 and status active; the handler then inserts one income transaction of
\* amount P and category loan for that user, and writes nothing more.
C17_NewLoanCreatesLoanAndIncome ==
  [][\A p \in Procs :
       /\ (/\ Extracts(p)
           /\ req'[p].data.intent = "new_loan"
           /\ req'[p].data.principal_amount.t = "num"
           /\ req'[p].data.principal_amount.n > 0)
            => pc'[p] = "saveLoan"
       /\ (pc[p] = "saveLoan" /\ pc'[p] = "loanIncome" /\ Principal(p) > 0)
            => /\ Len(loans') = Len(loans) + 1
               /\ SubSeq(loans', 1, Len(loans)) = loans
               /\ loans'[Len(loans')].user_id = req[p].userId
               /\ loans'[Len(loans')].principal_amount = Principal(p)
               /\ loans'[Len(loans')].remaining_balance = Principal(p)
               /\ loans'[Len(loans')].total_paid = 0
               /\ loans'[Len(loans')].status = "active"
               /\ ~loans'[Len(loans')].deleted
               /\ txns' = txns
       /\ (pc[p] = "loanIncome" /\ pc'[p] = "done" /\ Principal(p) > 0)
            => /\ txns' = txns (+) SetToBag({IncomeRow(p)})
               /\ loans' = loans
       /\ (pc[p] = "done" /\ req[p].data.intent = "new_loan" /\ Steps(p))
            => /\ pc'[p] = "idle"
               /\ UNCHANGED <<loans, txns>>]_vars

\* A new loan has been recorded: the loan row and its one income transaction.
C17_Witness ==
  \E p \in Procs :
    /\ pc[p] = "done"
    /\ req[p].data.intent = "new_loan"
    /\ res[p].message = "Loan recorded"
    /\ Principal(p) > 0
    /\ \E i \in Stored : loans[i] = NewLoanRow(i, req[p].userId, req[p].data)
    /\ CopiesIn(IncomeRow(p), txns) = 1

\* ------------------------------------------------------- degraded extraction
\* The raw output lacks what its loan intent needs: a usable amount and a lender
\* name for a repayment, a usable principal for a new loan.
Degraded(raw) ==
  \/ raw.intent = "loan_repayment" /\ (Unusable(raw.amount) \/ raw.lender_name = <<>>)
  \/ raw.intent = "new_loan" /\ Unusable(raw.principal_amount)

\* C18: when the raw output of a loan intent lacks a usable amount, lender name
\* or principal, the handler answers the fixed "could not extract" message at
\* once: it makes no store call, so that no loan is matched or updated and no
\* transaction is written.
C18_DegradedExtractionShortCircuits ==
  [][\A p \in Procs :
       (Extracts(p) /\ Degraded(req'[p].raw))
         => /\ pc'[p] = "done"
            /\ res'[p] = CouldNotExtract
            /\ UNCHANGED <<loans, txns, loan>>]_vars

\* The same when the number is missing or zero and the lender name is there.
C18_MissingNumberShortCircuits ==
  [][\A p \in Procs :
       (/\ Extracts(p)
        /\ \/ req'[p].raw.intent = "loan_repayment" /\ ~Truthy(req'[p].raw.amount)
           \/ req'[p].raw.intent = "new_loan" /\ ~Truthy(req'[p].raw.principal_amount))
         => /\ pc'[p] = "done"
            /\ res'[p] = CouldNotExtract
            /\ UNCHANGED <<loans, txns, loan>>]_vars

\* ------------------------------------------------------- the repayment result
\* C19: recordLoanRepayment returns one of three results, which the message
\* tells apart: no loan (null); a loan that is active with a remaining balance
\* above 0; a loan that is paid off with a remaining balance of 0. The loan
\* returned carries the three fields the call has put into its update.
C19_ThreeOutcomes ==
  [][\A p \in Procs :
       /\ (pc[p] = "updateLoan" /\ pc'[p] = "repayExpense" /\ loan[p].id \in Stored
             /\ ~IsNaN(req[p].data.amount))
            => /\ loans'[loan[p].id].total_paid = loan[p].total_paid + Amount(p)
               /\ loans'[loan[p].id].remaining_balance = Max0(loan[p].remaining_balance - Amount(p))
               /\ loans'[loan[p].id].status = Repaid(loan[p], req[p].data.amount).status
       /\ (pc[p] = "noMatchExpense" /\ pc'[p] = "done")
            => /\ res'[p].loan = NullLoan
               /\ res'[p].message = "no matching active loan found"
       /\ (pc[p] = "repayExpense" /\ pc'[p] = "done")
            => /\ res'[p].loan.id = loan[p].id
               /\ res'[p].loan.id # 0
               /\ res'[p].loan.total_paid = loan[p].total_paid + Amount(p)
               /\ res'[p].loan.remaining_balance = Max0(loan[p].remaining_balance - Amount(p))
               /\ res'[p].loan.status = Repaid(loan[p], req[p].data.amount).status
               /\ \/ /\ res'[p].loan.status = "active"
                     /\ res'[p].loan.remaining_balance > 0
                     /\ res'[p].message = "Remaining balance"
                  \/ /\ res'[p].loan.status = "paid_off"
                     /\ res'[p].loan.remaining_balance = 0
                     /\ res'[p].message = "now fully paid off"]_vars

\* Two repayments of one loan have returned: the first left it active, the
\* second paid it off, and the store holds what the second returned.
C19_Witness ==
  \E p, q \in Procs :
    /\ pc[p] = "done" /\ res[p].message = "Remaining balance"
    /\ pc[q] = "done" /\ res[q].message = "now fully paid off"
    /\ res[p].loan.id = res[q].loan.id
    /\ res[q].loan.id \in Stored
    /\ loans[res[q].loan.id].total_paid = res[q].loan.total_paid
    /\ loans[res[q].loan.id].remaining_balance = res[q].loan.remaining_balance
    /\ loans[res[q].loan.id].status = res[q].loan.status

\* ------------------------------------------------------- partial failure
\* The expense insert of request p has failed after its update has changed the loan.
PartialFailure(p) ==
  /\ pc[p] = "error"
  /\ res[p].at = "repayExpense"
  /\ loan[p].id \in Stored
  /\ loans[loan[p].id] # loan[p]

\* A store call of request q has failed before the request has written anything.
PlainFailure(q) ==
  /\ pc[q] = "error"
  /\ res[q].at \in {"saveLoan", "saveTransaction", "findLoans", "updateLoan", "noMatchExpense"}

\* C20: a failure of the expense insert after the loan update is told apart, by
\* what is logged or by what is answered, from a store failure of a request
\* that has written nothing.
C20_PartialFailureDistinct ==
  \A p, q \in Procs :
    (PartialFailure(p) /\ PlainFailure(q))
      => \/ Logged(res[p].at) # Logged(res[q].at)
         \/ <<res[p].http, res[p].message>> # <<res[q].http, res[q].message>>

\* The same against the failures of the loan lookup and of the loan update alone.
C20_PartialFailureNotLookupOrUpdate ==
  \A p, q \in Procs :
    (PartialFailure(p) /\ pc[q] = "error" /\ res[q].at \in {"findLoans", "updateLoan"})
      => Logged(res[p].at) # Logged(res[q].at)

\* ------------------------------------------------------- transaction rows
\* C21: every row of the transactions table (each is written by /api/process:
\* a transaction of any category, the income of a new loan, the expense of a
\* repayment matched or not) has an amount above 0 and a type that is expense
\* or income.
C21_RowsPositiveAndTyped ==
  \A row \in BagToSet(txns) :
    /\ row.amount > 0
    /\ row.type \in {"expense", "income"}

\* The same without the sign: the amount is not 0, the type is expense or income.
C21_RowsNonZeroAndTyped ==
  \A row \in BagToSet(txns) :
    /\ row.amount # 0
    /\ row.type \in {"expense", "income"}

\* ------------------------------------------------------- frame of the loans
\* Rows a and b differ in nothing but total_paid, remaining_balance and status.
SameButBalance(a, b) ==
  [a EXCEPT !.total_paid = 0, !.remaining_balance = 0, !.status = ""]
    = [b EXCEPT !.total_paid = 0, !.remaining_balance = 0, !.status = ""]

\* C22: a request with a transaction or new_loan intent changes no loan that
\* exists (a new loan is appended); a repayment changes a loan in its update
\* step only, and then the one loan it has read and no other, in total_paid,
\* remaining_balance and status only.
C22_LoansChangedByRepaymentOnly ==
  [][\A p \in Procs :
       Proceeds(p)
         => /\ \A i \in DOMAIN loans : i \in DOMAIN loans'
            /\ \A i \in DOMAIN loans :
                 loans'[i] # loans[i]
                   => /\ req[p].data.intent = "loan_repayment"
                      /\ pc[p] = "updateLoan"
                      /\ i = loan[p].id
                      /\ SameButBalance(loans'[i], loans[i])
            /\ pc'[p] = "updateLoan" => pc[p] = "findLoans"]_vars

\* Two active loans of the user matched the lender name of a repayment: the one
\* that was read holds the repayment, the other is as it was inserted.
C22_Witness ==
  \E p \in Procs : \E i, j \in Stored :
    /\ pc[p] = "done"
    /\ req[p].data.intent = "loan_repayment"
    /\ i # j
    /\ loans[i].user_id = req[p].userId /\ ILike(loans[i].lender_name, req[p].data.lender_name)
    /\ loans[j].user_id = req[p].userId /\ ILike(loans[j].lender_name, req[p].data.lender_name)
    /\ loan[p].id = i
    /\ loan[p].status = "active"
    /\ loans[i] = Repaid(loan[p], req[p].data.amount)
    /\ loans[i] # loan[p]
    /\ loans[j].status = "active"
    /\ loans[j].total_paid = 0
    /\ loans[j].remaining_balance = loans[j].principal_amount

\* ------------------------------------------------------- order of the two writes
\* C23: recordLoanRepayment inserts the expense only after its update has
\* returned; when the select or the update fails, the request ends in the 500
\* response, has written no expense, leaves every loan as stored and writes
\* nothing afterwards.
C23_UpdateBeforeInsert ==
  [][\A p \in Procs :
       /\ (Steps(p) /\ pc'[p] = "repayExpense") => pc[p] = "updateLoan"
       /\ (Steps(p) /\ pc[p] \in {"findLoans", "updateLoan"}) => txns' = txns
       /\ (pc[p] \in {"findLoans", "updateLoan"} /\ pc'[p] = "error")
            => /\ res'[p].http = 500
               /\ loans' = loans
               /\ txns' = txns
       /\ (pc[p] = "error" /\ res[p].at \in {"findLoans", "updateLoan"} /\ Steps(p))
            => /\ pc'[p] = "idle"
               /\ UNCHANGED <<loans, txns>>]_vars

\* The update of a repayment has failed: the loan is as it was read and the
\* store holds no expense of a repayment to it.
C23_Witness ==
  \E p \in Procs :
    /\ pc[p] = "error"
    /\ res[p].at = "updateLoan"
    /\ ~IsNaN(req[p].data.amount)
    /\ Amount(p) > 0
    /\ loan[p].id \in Stored
    /\ loans[loan[p].id] = loan[p]
    /\ RepaymentRows(loan[p].id) = 0

\* ------------------------------------------------------- total_paid and the expenses
\* The sum of the amounts of the rows of the bag `rows`.
RECURSIVE SumAmounts(_, _)
SumAmounts(rows, bag) ==
  IF rows = {} THEN 0
  ELSE LET r == CHOOSE x \in rows : TRUE
       IN  r.amount * CopiesIn(r, bag) + SumAmounts(rows \ {r}, bag)

\* The sum of the loan_repayment expenses of the repayments matched to loan id.
RepaidTo(id) ==
  SumAmounts({r \in BagToSet(txns) : r.loan_id = id /\ r.category = "loan_repayment"}, txns)

\* C24: when repayments run one after the other, every store call returns and
\* nothing is deleted, the total_paid of every loan is the sum of the amounts
\* of the expenses of the repayments matched to it, whenever no repayment is
\* between its update and its insert.
C24_TotalPaidIsSumOfExpenses ==
  (\A p \in Procs : pc[p] # "repayExpense")
    => \A i \in Stored : loans[i].total_paid = RepaidTo(i)


====
